---- MODULE Spec2Model ----
(***************************************************************************)
(* Model of opentreemap/importer/models.py: GenericImportEvent (status,    *)
(* JSON-encoded error list, structural file check, row aggregation) and    *)
(* GenericImportRow (raw data, cleaned map, JSON-encoded error list and   *)
(* the numeric / boolean / string / date field validators).                *)
(***************************************************************************)
EXTENDS Integers, Sequences, FiniteSets, TLC

VARIABLES status, errors, rows, data, model_fields, cleaned, row_errors,
          op, args, ret, ncalls

vars == <<status, errors, rows, data, model_fields, cleaned, row_errors,
          op, args, ret, ncalls>>

eventVars == <<status, errors>>
rowVars   == <<data, model_fields, cleaned, row_errors>>

(***************************************************************************)
(* Bounds of the model.                                                    *)
(***************************************************************************)
MaxEventErrors == 2
MaxDataRows    == 1
MaxRows        == 4
MaxCalls       == 2

(***************************************************************************)
(* Python values.                                                          *)
(***************************************************************************)
\* None / a list, as the optional `data` payload of an error
PyNone == [isNone |-> TRUE, items |-> <<>>]
PyList(s) == [isNone |-> FALSE, items |-> s]

\* the boolean False returned by the safe_* helpers (distinct from 0 / 0.0)
PyFalse == [k |-> "False"]

\* all orders in which a set can be listed
Perms(S) ==
  {s \in [1..Cardinality(S) -> S] : \A i, j \in 1..Cardinality(S) : s[i] = s[j] => i = j}

Range(s) == {s[i] : i \in 1..Len(s)}

(***************************************************************************)
(* Event and row statuses.                                                 *)
(***************************************************************************)
PENDING_VERIFICATION     == 1
VERIFIYING               == 2
FINISHED_VERIFICATION    == 3
CREATING                 == 4
FINISHED_CREATING        == 5
FAILED_FILE_VERIFICATION == 6

SUCCESS  == 0
ERROR    == 1
WARNING  == 2
WAITING  == 3
VERIFIED == 4

RowStatuses == {SUCCESS, ERROR, WARNING, WAITING, VERIFIED}

(***************************************************************************)
(* importer.errors: (code, message, fatal) triples.                        *)
(***************************************************************************)
Err(c, m, f) == [code |-> c, msg |-> m, fatal |-> f]

EMPTY_FILE       == Err(1, "No rows detected", TRUE)
UNMATCHED_FIELDS == Err(3, "Unrecognized fields in header row", FALSE)
MISSING_FIELD    == Err(5, "This field is required", TRUE)
FLOAT_ERROR      == Err(14, "Not formatted as a number", TRUE)
POS_FLOAT_ERROR  == Err(15, "Not formatted as a positive number", TRUE)
INT_ERROR        == Err(16, "Not formatted as an integer", TRUE)
POS_INT_ERROR    == Err(17, "Not formatted as a positive integer", TRUE)
BOOL_ERROR       == Err(18, "Not formatted as a boolean", TRUE)
STRING_TOO_LONG  == Err(19, "Strings must be less than 255 characters", TRUE)
INVALID_DATE     == Err(20, "Invalid date (must by YYYY-MM-DD)", FALSE)

(***************************************************************************)
(* json.dumps / json.loads on error lists.  The encoded text is kept as    *)
(* its sequence of JSON tokens: punctuation, string literals, number       *)
(* literals (decimal digits) and the literals true / false / null.         *)
(***************************************************************************)
Punct(s)  == [t |-> "punct", v |-> s]
StrTok(s) == [t |-> "str", v |-> s]
LitTok(s) == [t |-> "lit", v |-> s]

DecTable == <<"0", "1", "2", "3", "4", "5", "6", "7", "8", "9", "10",
              "11", "12", "13", "14", "15", "16", "17", "18", "19", "20">>

DecStr(n) == DecTable[n + 1]
ParseDec(s) == (CHOOSE i \in 1..Len(DecTable) : DecTable[i] = s) - 1
NumTok(n) == [t |-> "num", v |-> DecStr(n)]

RECURSIVE Concat(_)
Concat(ss) == IF ss = <<>> THEN <<>> ELSE Head(ss) \o Concat(Tail(ss))

DumpStrList(s) ==
  <<Punct("[")>> \o [i \in 1..Len(s) |-> StrTok(s[i])] \o <<Punct("]")>>

DumpBool(b) == IF b THEN LitTok("true") ELSE LitTok("false")

DumpData(d) == IF d.isNone THEN <<LitTok("null")>> ELSE DumpStrList(d.items)

\* a dict of an error: 'fields' is present in row errors only
DumpError(e) ==
  <<Punct("{"), StrTok("code"), NumTok(e.code)>>
  \o (IF "fields" \in DOMAIN e
        THEN <<StrTok("fields")>> \o DumpStrList(e.fields)
        ELSE <<>>)
  \o <<StrTok("msg"), StrTok(e.msg), StrTok("data")>> \o DumpData(e.data)
  \o <<StrTok("fatal"), DumpBool(e.fatal), Punct("}")>>

json_dumps(arr) ==
  <<Punct("[")>> \o Concat([i \in 1..Len(arr) |-> DumpError(arr[i])])
  \o <<Punct("]")>>

RECURSIVE ParseStrList(_, _, _)
ParseStrList(toks, i, acc) ==
  IF toks[i] = Punct("]")
    THEN [val |-> acc, next |-> i + 1]
    ELSE ParseStrList(toks, i + 1, Append(acc, toks[i].v))

\* the value that starts at token i; a list value under the key 'data'
\* is the optional payload, under any other key a plain list
ParseValue(toks, i, key) ==
  LET tk == toks[i] IN
  CASE tk.t = "num" -> [val |-> ParseDec(tk.v), next |-> i + 1]
    [] tk.t = "str" -> [val |-> tk.v, next |-> i + 1]
    [] tk.t = "lit" ->
         [val |-> IF tk.v = "null" THEN PyNone ELSE (tk.v = "true"),
          next |-> i + 1]
    [] tk.t = "punct" ->
         LET l == ParseStrList(toks, i + 1, <<>>) IN
         [val |-> IF key = "data" THEN PyList(l.val) ELSE l.val,
          next |-> l.next]

RECURSIVE ParseObject(_, _, _)
ParseObject(toks, i, acc) ==
  IF toks[i] = Punct("}")
    THEN [val |-> acc, next |-> i + 1]
    ELSE LET key == toks[i].v
             v   == ParseValue(toks, i + 1, key)
         IN ParseObject(toks, v.next, (key :> v.val) @@ acc)

RECURSIVE ParseArray(_, _, _)
ParseArray(toks, i, acc) ==
  IF toks[i] = Punct("]")
    THEN acc
    ELSE LET o == ParseObject(toks, i + 1, <<>>)
         IN ParseArray(toks, o.next, Append(acc, o.val))

json_loads(text) == ParseArray(text, 2, <<>>)

\* a TextField: None, or a text ('' is the empty text)
NoneText  == [null |-> TRUE, text |-> <<>>]
Text(t)   == [null |-> FALSE, text |-> t]
EmptyText == Text(<<>>)

IsUnset(f) == f.null \/ f.text = <<>>

(***************************************************************************)
(* GenericImportEvent                                                      *)
(***************************************************************************)
Event_errors_as_array(errs) ==
  IF IsUnset(errs) THEN <<>> ELSE json_loads(errs.text)

Event_has_errors(errs) == Len(Event_errors_as_array(errs)) > 0

\* (variant: the new error replaces the stored list)
Event_append_error_Overwrite(errs, err, d) ==
  Text(json_dumps(<<[code |-> err[1], msg |-> err[2], data |-> d,
                     fatal |-> err[3]]>>))

\* append_error(err, data): the new value of self.errors
Event_append_error(errs, err, d) ==
  LET e0 == IF IsUnset(errs) THEN Text(<<Punct("["), Punct("]")>>) ELSE errs
  IN Text(json_dumps(Event_errors_as_array(e0)
                     \o <<[code |-> err[1], msg |-> err[2], data |-> d,
                           fatal |-> err[3]]>>))

Triple(e) == <<e.code, e.msg, e.fatal>>

\* the per-entity custom validator handed to _validate_main_file: none, or
\* one that demands a column
CustomValidators == {"accept", "require_h1"}

HeaderFields == {"h1", "h2"}

validate_custom_fields(v, input_fields) ==
  IF v = "require_h1" /\ "h1" \notin input_fields
    THEN [isNone |-> FALSE, err |-> Triple(MISSING_FIELD)]
    ELSE [isNone |-> TRUE, err |-> <<>>]

\* errors after the 'else' branch of _validate_main_file; rem_list is list(rem)
ValidateColumns(errs, input_fields, fieldsource, v, rem_list) ==
  LET custom_error == validate_custom_fields(v, input_fields)
      e1 == IF ~custom_error.isNone
              THEN Event_append_error(errs, custom_error.err, PyNone)
              ELSE errs
      rem == input_fields \ fieldsource
  IN IF Cardinality(rem) > 0
       THEN Event_append_error(e1, Triple(UNMATCHED_FIELDS), PyList(rem_list))
       ELSE e1

ColumnsValid(input_fields, fieldsource, v) ==
  /\ validate_custom_fields(v, input_fields).isNone
  /\ ~(Cardinality(input_fields \ fieldsource) > 0)

\* (variant: the failure is returned but never recorded in the status)
StatusAfterValidate_Kept(st, is_valid) == st

\* the status _validate_main_file leaves behind
StatusAfterValidate(st, is_valid) ==
  IF ~is_valid THEN FAILED_FILE_VERIFICATION ELSE st

\* datasource: the key set of each row's data, in idx order
\* (every row of a parsed file carries the columns of the header)
DataSources ==
  {[i \in 1..n |-> ks] : n \in 0..MaxDataRows, ks \in SUBSET HeaderFields}

ValidateMainFile(datasource, fieldsource, v) ==
  /\ Len(Event_errors_as_array(errors)) < MaxEventErrors
  /\ IF Len(datasource) = 0
       THEN /\ errors' = Event_append_error(errors, Triple(EMPTY_FILE), PyNone)
            /\ status' = StatusAfterValidate(status, FALSE)
            /\ ret' = FALSE
            /\ args' = [nrows |-> 0, input_fields |-> {},
                        fieldsource |-> fieldsource, custom |-> v]
       ELSE LET input_fields == datasource[1]
                is_valid == ColumnsValid(input_fields, fieldsource, v)
            IN /\ \E rem_list \in Perms(input_fields \ fieldsource) :
                    errors' = ValidateColumns(errors, input_fields,
                                              fieldsource, v, rem_list)
               /\ status' = StatusAfterValidate(status, is_valid)
               /\ ret' = is_valid
               /\ args' = [nrows |-> Len(datasource),
                           input_fields |-> input_fields,
                           fieldsource |-> fieldsource, custom |-> v]
  /\ op' = "_validate_main_file"
  /\ UNCHANGED <<rows, rowVars, ncalls>>

UpdateStatus ==
  /\ op' = "update_status"
  /\ args' = <<>>
  /\ ret' = PyNone
  /\ UNCHANGED <<eventVars, rows, rowVars, ncalls>>

EventErrs == {EMPTY_FILE, UNMATCHED_FIELDS}
EventPayloads == {PyNone, PyList(<<"h2", "h1">>)}

EventAppendError(err, d) ==
  /\ ncalls < MaxCalls
  /\ Len(Event_errors_as_array(errors)) < MaxEventErrors
  /\ ncalls' = ncalls + 1
  /\ errors' = Event_append_error(errors, Triple(err), d)
  /\ op' = "GenericImportEvent.append_error"
  /\ args' = [err |-> err, data |-> d]
  /\ ret' = PyNone
  /\ UNCHANGED <<status, rows, rowVars>>

(***************************************************************************)
(* GenericImportRow.  Raw values are strings, kept as their sequence of    *)
(* characters.                                                             *)
(***************************************************************************)
Digits == <<"0", "1", "2", "3", "4", "5", "6", "7", "8", "9">>
IsDigit(c) == \E i \in 1..10 : Digits[i] = c
DigitVal(c) == (CHOOSE i \in 1..10 : Digits[i] = c) - 1

RECURSIVE DecValue(_, _)
DecValue(ds, acc) ==
  IF ds = <<>> THEN acc ELSE DecValue(Tail(ds), 10 * acc + DigitVal(Head(ds)))

AllDigits(s) == Len(s) > 0 /\ \A i \in 1..Len(s) : IsDigit(s[i])

Unsigned(s) == IF Len(s) > 0 /\ s[1] \in {"-", "+"} THEN Tail(s) ELSE s
Negative(s) == Len(s) > 0 /\ s[1] = "-"

\* float(s) for decimal literals: [sign] digits [. digits] or [sign] . digits
\* the value is num / 10^exp; ok = FALSE stands for ValueError
ParseFloat(s) ==
  LET body == Unsigned(s)
      dots == {i \in 1..Len(body) : body[i] = "."}
      ds   == SelectSeq(body, IsDigit)
      ok   == /\ Len(ds) > 0
              /\ Cardinality(dots) <= 1
              /\ \A i \in 1..Len(body) : IsDigit(body[i]) \/ body[i] = "."
      mag  == DecValue(ds, 0)
  IN [ok  |-> ok,
      num |-> IF ok THEN (IF Negative(s) THEN 0 - mag ELSE mag) ELSE 0,
      exp |-> IF ok /\ dots # {} THEN Len(body) - (CHOOSE i \in dots : TRUE) ELSE 0]

\* int(s): [sign] digits
ParseInt(s) ==
  LET body == Unsigned(s)
      ok   == AllDigits(body)
      mag  == IF ok THEN DecValue(body, 0) ELSE 0
  IN [ok |-> ok, num |-> IF Negative(s) THEN 0 - mag ELSE mag]

FloatVal(n, e) == [k |-> "float", num |-> n, exp |-> e]
IntVal(n)      == [k |-> "int", num |-> n]
BoolVal(b)     == [k |-> "bool", b |-> b]
StrVal(s)      == [k |-> "str", s |-> s]
DateVal(y, m, d) == [k |-> "date", y |-> y, m |-> m, d |-> d]

\* x is False (identity with the singleton, so 0 and 0.0 are not False)
IsFalse(x) == x.k = "False"

Row_errors_as_array(errs) ==
  IF IsUnset(errs) THEN <<>> ELSE json_loads(errs.text)

Row_has_errors(errs) == Len(Row_errors_as_array(errs)) > 0

Row_has_fatal_error(errs) ==
  /\ ~IsUnset(errs)
  /\ \E i \in 1..Len(json_loads(errs.text)) : json_loads(errs.text)[i].fatal

\* the `fields` argument of append_error: one field name, or a list of them
OneField(f)   == [isStr |-> TRUE, s |-> f, items |-> <<>>]
FieldList(fs) == [isStr |-> FALSE, s |-> "", items |-> fs]

\* isinstance(fields, basestring): a single name becomes a 1-tuple
NormFields(fields) == IF fields.isStr THEN <<fields.s>> ELSE fields.items

\* (variant: the new error replaces the stored list)
Row_append_error_Overwrite(errs, err, fields, d) ==
  Text(json_dumps(<<[code |-> err[1], fields |-> NormFields(fields),
                     msg |-> err[2], data |-> d, fatal |-> err[3]]>>))

\* append_error(err, fields, data): the new value of self.errors
Row_append_error(errs, err, fields, d) ==
  LET e0 == IF IsUnset(errs) THEN Text(<<Punct("["), Punct("]")>>) ELSE errs
  IN Text(json_dumps(json_loads(e0.text)
                     \o <<[code |-> err[1], fields |-> NormFields(fields),
                           msg |-> err[2], data |-> d, fatal |-> err[3]]>>))

\* The safe_* helpers return a value (or False) and may append an error:
\* [ret, errors].  p is the outcome of float() / int() on the raw value.
FloatResult(p, errs, fld) ==
  IF p.ok
    THEN [ret |-> FloatVal(p.num, p.exp), errors |-> errs]
    ELSE [ret |-> PyFalse,
          errors |-> Row_append_error(errs, Triple(FLOAT_ERROR), OneField(fld), PyNone)]

safe_float(d, errs, fld) ==
  FloatResult(IF fld \in DOMAIN d THEN ParseFloat(d[fld]) ELSE [ok |-> FALSE],
              errs, fld)

IntResult(p, errs, fld) ==
  IF p.ok
    THEN [ret |-> IntVal(p.num), errors |-> errs]
    ELSE [ret |-> PyFalse,
          errors |-> Row_append_error(errs, Triple(INT_ERROR), OneField(fld), PyNone)]

safe_int(d, errs, fld) ==
  IntResult(IF fld \in DOMAIN d THEN ParseInt(d[fld]) ELSE [ok |-> FALSE],
            errs, fld)

\* the test of safe_pos_int / safe_pos_float on a parsed number
BelowZero(num) == num < 0

\* safe_pos_int after i = self.safe_int(fld)
PosIntResult(i, fld) ==
  IF IsFalse(i.ret) THEN i
  ELSE IF BelowZero(i.ret.num)
    THEN [ret |-> PyFalse,
          errors |-> Row_append_error(i.errors, Triple(POS_INT_ERROR), OneField(fld), PyNone)]
    ELSE i

safe_pos_int(d, errs, fld) == PosIntResult(safe_int(d, errs, fld), fld)

\* safe_pos_float after i = self.safe_float(fld)
PosFloatResult(i, fld) ==
  IF IsFalse(i.ret) THEN i
  ELSE IF BelowZero(i.ret.num)
    THEN [ret |-> PyFalse,
          errors |-> Row_append_error(i.errors, Triple(POS_FLOAT_ERROR), OneField(fld), PyNone)]
    ELSE i

safe_pos_float(d, errs, fld) == PosFloatResult(safe_float(d, errs, fld), fld)

UpperCase == <<"A", "B", "C", "D", "E", "F", "G", "H", "I", "J", "K", "L", "M",
               "N", "O", "P", "Q", "R", "S", "T", "U", "V", "W", "X", "Y", "Z">>
LowerCase == <<"a", "b", "c", "d", "e", "f", "g", "h", "i", "j", "k", "l", "m",
               "n", "o", "p", "q", "r", "s", "t", "u", "v", "w", "x", "y", "z">>

LowerChar(c) ==
  IF \E i \in 1..26 : UpperCase[i] = c
    THEN LowerCase[CHOOSE i \in 1..26 : UpperCase[i] = c]
    ELSE c

lower(s) == [i \in 1..Len(s) |-> LowerChar(s[i])]

\* (success, value): value is None, True or False
safe_bool(d, errs, fld) ==
  LET v == lower(IF fld \in DOMAIN d THEN d[fld] ELSE <<>>)
  IN IF v = <<>>
       THEN [success |-> TRUE, isNone |-> TRUE, v |-> FALSE, errors |-> errs]
     ELSE IF v \in {<<"t", "r", "u", "e">>, <<"t">>, <<"y", "e", "s">>}
       THEN [success |-> TRUE, isNone |-> FALSE, v |-> TRUE, errors |-> errs]
     ELSE IF v \in {<<"f", "a", "l", "s", "e">>, <<"f">>, <<"n", "o">>}
       THEN [success |-> TRUE, isNone |-> FALSE, v |-> FALSE, errors |-> errs]
     ELSE [success |-> FALSE, isNone |-> TRUE, v |-> FALSE,
           errors |-> Row_append_error(errs, Triple(BOOL_ERROR), OneField(fld), PyNone)]

\* m[k] = v on a dict
SetItem(m, k, v) == (k :> v) @@ m

\* the helper a numeric group is cleaned with
NumFn(fn, d, errs, f) ==
  CASE fn = "safe_pos_float" -> safe_pos_float(d, errs, f)
    [] fn = "safe_float"     -> safe_float(d, errs, f)
    [] fn = "safe_pos_int"   -> safe_pos_int(d, errs, f)

\* (variant: 'maybe_num == False', which 0 and 0.0 satisfy too)
CleanupFailed_Equal(maybe_num) == IsFalse(maybe_num) \/ maybe_num.num = 0

\* how cleanup tells a failed helper from a number
CleanupFailed(maybe_num) == IsFalse(maybe_num)

\* The validators work on the row state st = [cleaned, errors, ret]; inside
\* a loop st.ret is the has_errors flag of the loop.
Flag(st, b) == [st EXCEPT !.ret = b]

\* the body of cleanup's loop once maybe_num = fn(f) has returned r
CleanupStore(f, r, st) ==
  IF CleanupFailed(r.ret)
    THEN [cleaned |-> st.cleaned, errors |-> r.errors, ret |-> TRUE]
    ELSE [cleaned |-> SetItem(st.cleaned, f, r.ret), errors |-> r.errors,
          ret |-> st.ret]

\* cleanup(fields, fn) of validate_numeric_fields
RECURSIVE cleanup(_, _, _, _)
cleanup(fields, fn, d, st) ==
  IF fields = <<>>
    THEN st
    ELSE IF Head(fields) \in DOMAIN d /\ d[Head(fields)] # <<>>
      THEN cleanup(Tail(fields), fn, d,
                   CleanupStore(Head(fields),
                                NumFn(fn, d, st.errors, Head(fields)), st))
      ELSE cleanup(Tail(fields), fn, d, st)

\* the return value of validate_numeric_fields
NumericReturn(pfloat_ok, float_ok, int_ok) == pfloat_ok /\ float_ok /\ int_ok

\* validate_numeric_fields after int_ok = cleanup(POS_INT_FIELDS, ...)
NumericAfterInt(pfloat_ok, float_ok, i) ==
  Flag(i, NumericReturn(pfloat_ok, float_ok, i.ret))

\* ... after float_ok = cleanup(FLOAT_FIELDS, ...)
NumericAfterFloat(mf, d, pfloat_ok, f) ==
  NumericAfterInt(pfloat_ok, f.ret,
                  cleanup(mf.POS_INT_FIELDS, "safe_pos_int", d, Flag(f, FALSE)))

\* ... after pfloat_ok = cleanup(POS_FLOAT_FIELDS, ...)
NumericAfterPosFloat(mf, d, p) ==
  NumericAfterFloat(mf, d, p.ret,
                    cleanup(mf.FLOAT_FIELDS, "safe_float", d, Flag(p, FALSE)))

validate_numeric_fields(mf, d, st) ==
  NumericAfterPosFloat(mf, d,
    cleanup(mf.POS_FLOAT_FIELDS, "safe_pos_float", d, Flag(st, FALSE)))

\* the body of validate_boolean_fields' loop once safe_bool has returned r
BooleanStore(f, r, st) ==
  IF r.success /\ ~r.isNone
    THEN [cleaned |-> SetItem(st.cleaned, f, BoolVal(r.v)), errors |-> r.errors,
          ret |-> st.ret]
    ELSE [cleaned |-> st.cleaned, errors |-> r.errors, ret |-> TRUE]

RECURSIVE BooleanLoop(_, _, _)
BooleanLoop(fields, d, st) ==
  IF fields = <<>>
    THEN st
    ELSE IF Head(fields) \in DOMAIN d
      THEN BooleanLoop(Tail(fields), d,
                       BooleanStore(Head(fields),
                                    safe_bool(d, st.errors, Head(fields)), st))
      ELSE BooleanLoop(Tail(fields), d, st)

validate_boolean_fields(mf, d, st) ==
  BooleanLoop(mf.BOOLEAN_FIELDS, d, Flag(st, FALSE))

MaxStringLen == 255

\* the body of validate_string_fields' loop for a non-empty value
StringStore(field, value, st) ==
  IF Len(value) > MaxStringLen
    THEN [cleaned |-> st.cleaned,
          errors |-> Row_append_error(st.errors, Triple(STRING_TOO_LONG),
                                      OneField(field), PyNone),
          ret |-> TRUE]
    ELSE [cleaned |-> SetItem(st.cleaned, field, StrVal(value)),
          errors |-> st.errors, ret |-> st.ret]

RECURSIVE StringLoop(_, _, _)
StringLoop(fields, d, st) ==
  IF fields = <<>>
    THEN st
    ELSE IF Head(fields) \in DOMAIN d /\ d[Head(fields)] # <<>>
      THEN StringLoop(Tail(fields), d,
                      StringStore(Head(fields), d[Head(fields)], st))
      ELSE StringLoop(Tail(fields), d, st)

validate_string_fields(mf, d, st) ==
  StringLoop(mf.STRING_FIELDS, d, Flag(st, FALSE))

IsLeap(y) == (y % 4 = 0 /\ y % 100 # 0) \/ y % 400 = 0

DaysInMonth(y, m) ==
  IF m = 2 THEN (IF IsLeap(y) THEN 29 ELSE 28)
  ELSE IF m \in {4, 6, 9, 11} THEN 30 ELSE 31

\* datetime.strptime(value, '%Y-%m-%d'): four digits, '-', a month 1..12 in
\* one or two digits, '-', a day in one or two digits that the month has;
\* ok = FALSE stands for ValueError
strptime(value) ==
  LET dashes == {i \in 1..Len(value) : value[i] = "-"}
      d1 == CHOOSE i \in dashes : \A j \in dashes : i <= j
      d2 == CHOOSE i \in dashes : \A j \in dashes : j <= i
      ys == SubSeq(value, 1, d1 - 1)
      ms == SubSeq(value, d1 + 1, d2 - 1)
      ds == SubSeq(value, d2 + 1, Len(value))
      shape == /\ Cardinality(dashes) = 2
               /\ Len(ys) = 4 /\ AllDigits(ys)
               /\ Len(ms) \in {1, 2} /\ AllDigits(ms)
               /\ Len(ds) \in {1, 2} /\ AllDigits(ds)
      y == DecValue(ys, 0)
      m == DecValue(ms, 0)
      d == DecValue(ds, 0)
      ok == /\ shape
            /\ y >= 1
            /\ m \in 1..12
            /\ d >= 1 /\ d <= DaysInMonth(y, m)
  IN IF ok THEN [ok |-> TRUE, val |-> DateVal(y, m, d)]
           ELSE [ok |-> FALSE, val |-> PyFalse]

\* the key validate_date_fields writes a parsed date under
DateCleanedKey(mf, field) == mf.DATE_PLANTED

\* the field validate_date_fields tags an invalid date to
DateErrorField(mf, field) == mf.DATE_PLANTED

\* the body of validate_date_fields' loop once strptime has returned datep
DateStore(mf, field, datep, st) ==
  IF datep.ok
    THEN [cleaned |-> SetItem(st.cleaned, DateCleanedKey(mf, field), datep.val),
          errors |-> st.errors, ret |-> st.ret]
    ELSE [cleaned |-> st.cleaned,
          errors |-> Row_append_error(st.errors, Triple(INVALID_DATE),
                                      OneField(DateErrorField(mf, field)), PyNone),
          ret |-> TRUE]

RECURSIVE DateLoop(_, _, _, _)
DateLoop(fields, mf, d, st) ==
  IF fields = <<>>
    THEN st
    ELSE IF Head(fields) \in DOMAIN d /\ d[Head(fields)] # <<>>
      THEN DateLoop(Tail(fields), mf, d,
                    DateStore(mf, Head(fields), strptime(d[Head(fields)]), st))
      ELSE DateLoop(Tail(fields), mf, d, st)

validate_date_fields(mf, d, st) ==
  DateLoop(mf.DATE_FIELDS, mf, d, Flag(st, FALSE))

\* the four validators in order; their return values are dropped
validate_and_convert_datatypes(mf, d, st) ==
  Flag(validate_date_fields(mf, d,
         validate_string_fields(mf, d,
           validate_boolean_fields(mf, d,
             validate_numeric_fields(mf, d, st)))),
       PyNone)

\* the (error, field) pairs get_fields_with_error visits, in order
ErrorFieldRefs(arr) ==
  Concat([i \in 1..Len(arr) |-> arr[i].fields])

\* get_fields_with_error(): raised = TRUE stands for the KeyError of
\* datadict[field]
get_fields_with_error(d, errs) ==
  LET refs == ErrorFieldRefs(Row_errors_as_array(errs))
  IN IF \E i \in 1..Len(refs) : refs[i] \notin DOMAIN d
       THEN [raised |-> TRUE, val |-> <<>>]
       ELSE [raised |-> FALSE, val |-> [f \in Range(refs) |-> d[f]]]

\* the verification and creation passes move the event forward
NextStage(st) ==
  CASE st = PENDING_VERIFICATION -> VERIFIYING
    [] st = VERIFIYING -> FINISHED_VERIFICATION
    [] st = FINISHED_VERIFICATION -> CREATING
    [] st = CREATING -> FINISHED_CREATING
    [] OTHER -> st

AdvanceStatus ==
  /\ status \in {PENDING_VERIFICATION, VERIFIYING, FINISHED_VERIFICATION, CREATING}
  /\ status' = NextStage(status)
  /\ op' = "advance"
  /\ args' = <<>>
  /\ ret' = PyNone
  /\ UNCHANGED <<errors, rows, rowVars, ncalls>>

\* a row with nothing declared and nothing in it
NoFields == [POS_FLOAT_FIELDS |-> <<>>, FLOAT_FIELDS |-> <<>>,
             POS_INT_FIELDS |-> <<>>, BOOLEAN_FIELDS |-> <<>>,
             STRING_FIELDS |-> <<>>, DATE_FIELDS |-> <<>>,
             DATE_PLANTED |-> "planted"]

RowIdle ==
  /\ data = <<>>
  /\ model_fields = NoFields
  /\ cleaned = <<>>
  /\ row_errors = EmptyText

Init ==
  /\ status = PENDING_VERIFICATION
  /\ errors \in {EmptyText, NoneText}
  /\ rows = <<>>
  /\ RowIdle
  /\ op = "init"
  /\ args = <<>>
  /\ ret = PyNone
  /\ ncalls = 0

Next ==
  \/ \E datasource \in DataSources, fieldsource \in SUBSET HeaderFields,
        v \in CustomValidators :
       ValidateMainFile(datasource, fieldsource, v)
  \/ UpdateStatus
  \/ \E err \in EventErrs, d \in EventPayloads : EventAppendError(err, d)
  \/ AdvanceStatus

Spec == Init /\ [][Next]_vars

(***************************************************************************)
(* Rows under validation: one row, its field catalog and its raw data.     *)
(***************************************************************************)
Fields == {"f1", "f2"}

Groups == {"POS_FLOAT_FIELDS", "FLOAT_FIELDS", "POS_INT_FIELDS",
           "BOOLEAN_FIELDS", "STRING_FIELDS", "DATE_FIELDS"}

\* what a catalog declares a field as: nothing, one group, or (f1 only)
\* both a float and a positive int
Declarations(f) ==
  {{}} \cup {{g} : g \in Groups}
  \cup (IF f = "f1" THEN {{"FLOAT_FIELDS", "POS_INT_FIELDS"}} ELSE {})

\* the fields declared in group g, in the catalog's order
GroupList(decl, order, g) ==
  SelectSeq(order, LAMBDA f : g \in decl[f])

CatalogOf(decl, order, planted) ==
  [POS_FLOAT_FIELDS |-> GroupList(decl, order, "POS_FLOAT_FIELDS"),
   FLOAT_FIELDS     |-> GroupList(decl, order, "FLOAT_FIELDS"),
   POS_INT_FIELDS   |-> GroupList(decl, order, "POS_INT_FIELDS"),
   BOOLEAN_FIELDS   |-> GroupList(decl, order, "BOOLEAN_FIELDS"),
   STRING_FIELDS    |-> GroupList(decl, order, "STRING_FIELDS"),
   DATE_FIELDS      |-> GroupList(decl, order, "DATE_FIELDS"),
   DATE_PLANTED     |-> planted]

\* Catalogs: the planted-date key is a date column (f1) or a key of its own
Catalogs ==
  {CatalogOf(decl, order, planted) :
     decl \in {d \in [Fields -> SUBSET Groups] :
                 \A f \in Fields : d[f] \in Declarations(f)},
     order \in Perms(Fields),
     planted \in {"f1", "planted"}}

ValidCatalog(c) == c.DATE_PLANTED = "f1" => "f1" \in Range(c.DATE_FIELDS)

Rep(c, n) == [i \in 1..n |-> c]

RawValues ==
  { <<>>,
    <<"0">>,
    <<"-", "3">>,
    <<"1", ".", "5">>,
    <<"Y", "e", "s">>,
    <<"2", "0", "2", "0", "-", "0", "3", "-", "1", "5">>,
    <<"2", "0", "2", "1", "-", "0", "2", "-", "2", "9">>,
    Rep("a", MaxStringLen + 1) }

DataDicts == UNION {[S -> RawValues] : S \in SUBSET Fields}

InitRow ==
  /\ status = PENDING_VERIFICATION
  /\ errors = EmptyText
  /\ rows = <<>>
  /\ model_fields \in {c \in Catalogs : ValidCatalog(c)}
  /\ data \in DataDicts
  /\ cleaned = <<>>
  /\ row_errors = EmptyText
  /\ op = "init"
  /\ args = <<>>
  /\ ret = PyNone
  /\ ncalls = 0

\* the row as the validators see it
RowState == [cleaned |-> cleaned, errors |-> row_errors, ret |-> FALSE]

\* a validator call: its result r = [cleaned, errors, ret] is stored
RowCall(name, r) ==
  /\ ncalls < MaxCalls
  /\ ncalls' = ncalls + 1
  /\ cleaned' = r.cleaned
  /\ row_errors' = r.errors
  /\ ret' = r.ret
  /\ op' = name
  /\ args' = <<>>
  /\ UNCHANGED <<eventVars, rows, data, model_fields>>

ValidateNumericFields ==
  RowCall("validate_numeric_fields",
          validate_numeric_fields(model_fields, data, RowState))

ValidateBooleanFields ==
  RowCall("validate_boolean_fields",
          validate_boolean_fields(model_fields, data, RowState))

ValidateStringFields ==
  RowCall("validate_string_fields",
          validate_string_fields(model_fields, data, RowState))

ValidateDateFields ==
  RowCall("validate_date_fields",
          validate_date_fields(model_fields, data, RowState))

ValidateAndConvertDatatypes ==
  RowCall("validate_and_convert_datatypes",
          validate_and_convert_datatypes(model_fields, data, RowState))

GetFieldsWithError ==
  /\ op # "get_fields_with_error"
  /\ op' = "get_fields_with_error"
  /\ ret' = get_fields_with_error(data, row_errors)
  /\ args' = <<>>
  /\ UNCHANGED <<eventVars, rows, rowVars, ncalls>>

NextRow ==
  \/ ValidateNumericFields
  \/ ValidateBooleanFields
  \/ ValidateStringFields
  \/ ValidateDateFields
  \/ ValidateAndConvertDatatypes
  \/ GetFieldsWithError

SpecRow == InitRow /\ [][NextRow]_vars

(***************************************************************************)
(* append_error on stored error lists, event and row.                      *)
(***************************************************************************)
RowErrs == {FLOAT_ERROR, INVALID_DATE}
RowFieldArgs == {OneField("f1"), FieldList(<<"f1", "f2">>)}
RowPayloads == {PyNone, PyList(<<"x">>)}

RowAppendError(err, fields, d) ==
  /\ ncalls < MaxCalls
  /\ ncalls' = ncalls + 1
  /\ row_errors' = Row_append_error(row_errors, Triple(err), fields, d)
  /\ op' = "GenericImportRow.append_error"
  /\ args' = [err |-> err, fields |-> fields, data |-> d]
  /\ ret' = PyNone
  /\ UNCHANGED <<eventVars, rows, data, model_fields, cleaned>>

\* what the errors column of a stored event / row can hold
StoredEventErrors ==
  {NoneText, EmptyText, Text(json_dumps(<<>>)),
   Text(json_dumps(<<[code |-> 1, msg |-> "No rows detected", data |-> PyNone,
                      fatal |-> TRUE]>>))}

StoredRowErrors ==
  {NoneText, EmptyText, Text(json_dumps(<<>>)),
   Text(json_dumps(<<[code |-> 18, fields |-> <<"f2">>,
                      msg |-> "Not formatted as a boolean", data |-> PyNone,
                      fatal |-> TRUE]>>))}

InitAppend ==
  /\ status = PENDING_VERIFICATION
  /\ errors \in StoredEventErrors
  /\ rows = <<>>
  /\ data = <<>>
  /\ model_fields = NoFields
  /\ cleaned = <<>>
  /\ row_errors \in StoredRowErrors
  /\ op = "init"
  /\ args = <<>>
  /\ ret = PyNone
  /\ ncalls = 0

NextAppend ==
  \/ \E err \in EventErrs, d \in EventPayloads : EventAppendError(err, d)
  \/ \E err \in RowErrs, fields \in RowFieldArgs, d \in RowPayloads :
       RowAppendError(err, fields, d)

SpecAppend == InitAppend /\ [][NextAppend]_vars

(***************************************************************************)
(* The rows of an event and the counting queries.  rows[i] is the status   *)
(* of the row with idx i.                                                  *)
(***************************************************************************)
\* Count('status') of one group
RECURSIVE StatusCount(_, _)
StatusCount(rs, s) ==
  IF rs = <<>> THEN 0
  ELSE (IF Head(rs) = s THEN 1 ELSE 0) + StatusCount(Tail(rs), s)

\* the groups of row_set().values('status')
StatusGroups(rs) == {rs[i] : i \in 1..Len(rs)}

row_counts_by_status(rs) ==
  [s \in StatusGroups(rs) |-> StatusCount(rs, s)]

\* dict.get(key, default)
DictGet(m, key, default) == IF key \in DOMAIN m THEN m[key] ELSE default

\* (variant: the rows still waiting are returned, not the rest)
completed_row_count_Left(rs) ==
  DictGet(row_counts_by_status(rs), WAITING, 0)

completed_row_count(rs) ==
  Len(rs) - DictGet(row_counts_by_status(rs), WAITING, 0)

\* a parsed data row is stored, with the default status
AddRow ==
  /\ Len(rows) < MaxRows
  /\ rows' = Append(rows, WAITING)
  /\ op' = "add_row"
  /\ args' = <<>>
  /\ ret' = PyNone
  /\ UNCHANGED <<eventVars, rowVars, ncalls>>

\* a row's status is set by a verification or creation pass
SetRowStatus(i, s) ==
  /\ rows[i] # s
  /\ rows' = [rows EXCEPT ![i] = s]
  /\ op' = "set_row_status"
  /\ args' = <<>>
  /\ ret' = PyNone
  /\ UNCHANGED <<eventVars, rowVars, ncalls>>

RowCountsByStatus ==
  /\ op' = "row_counts_by_status"
  /\ ret' = row_counts_by_status(rows)
  /\ args' = <<>>
  /\ UNCHANGED <<eventVars, rows, rowVars, ncalls>>

CompletedRowCount ==
  /\ op' = "completed_row_count"
  /\ ret' = completed_row_count(rows)
  /\ args' = <<>>
  /\ UNCHANGED <<eventVars, rows, rowVars, ncalls>>

NextCounts ==
  \/ AddRow
  \/ \E i \in 1..Len(rows), s \in RowStatuses : SetRowStatus(i, s)
  \/ RowCountsByStatus
  \/ CompletedRowCount

InitCounts ==
  /\ status = PENDING_VERIFICATION
  /\ errors = EmptyText
  /\ rows = <<>>
  /\ RowIdle
  /\ op = "init"
  /\ args = <<>>
  /\ ret = PyNone
  /\ ncalls = 0

SpecCounts == InitCounts /\ [][NextCounts]_vars

(***************************************************************************)
(* Properties of GenericImportEvent, checked under Spec.                   *)
(***************************************************************************)
\* the event's decoded error list before and after a step
ErrorsBefore == Event_errors_as_array(errors)
ErrorsAfter  == Event_errors_as_array(errors')

\* the step appended exactly the entries `added` to the event's error list
EventAppended(added) == ErrorsAfter = ErrorsBefore \o added

EventEntry(err, d) ==
  [code |-> err.code, msg |-> err.msg, data |-> d, fatal |-> err.fatal]

\* the last call was _validate_main_file on at least one row, with a custom
\* validator that reports nothing and a strict superset of the expected fields
SupersetCall ==
  /\ op' = "_validate_main_file"
  /\ args'.nrows >= 1
  /\ validate_custom_fields(args'.custom, args'.input_fields).isNone
  /\ args'.fieldsource \subseteq args'.input_fields
  /\ args'.fieldsource # args'.input_fields

\* C1: _validate_main_file on rows whose field set is a strict superset of
\* the expected set (custom validator silent) returns false, leaves the
\* status as it was, and appends one UnmatchedFields error whose payload
\* lists exactly the extra fields.
C1_SupersetKeepsStatus ==
  [][SupersetCall =>
       /\ ret' = FALSE
       /\ status' = status
       /\ Len(ErrorsAfter) = Len(ErrorsBefore) + 1
       /\ SubSeq(ErrorsAfter, 1, Len(ErrorsBefore)) = ErrorsBefore
       /\ LET e == ErrorsAfter[Len(ErrorsAfter)] IN
            /\ e.code = UNMATCHED_FIELDS.code
            /\ ~e.data.isNone
            /\ Range(e.data.items) = args'.input_fields \ args'.fieldsource
            /\ Len(e.data.items) = Cardinality(args'.input_fields \ args'.fieldsource)
    ]_vars

\* C2: _validate_main_file on zero rows returns false, sets the status to
\* FailedFileVerification and makes the error list exactly one entry
\* longer, the new entry being the EmptyFile error.
C2_EmptyFile ==
  [][(op' = "_validate_main_file" /\ args'.nrows = 0) =>
       /\ ret' = FALSE
       /\ status' = FAILED_FILE_VERIFICATION
       /\ EventAppended(<<EventEntry(EMPTY_FILE, PyNone)>>)
    ]_vars

\* an empty file was checked on an event that already held an error
C2_Witness ==
  /\ op = "_validate_main_file"
  /\ args.nrows = 0
  /\ ret = FALSE
  /\ status = FAILED_FILE_VERIFICATION
  /\ Len(Event_errors_as_array(errors)) = 2
  /\ Event_errors_as_array(errors)[2].code = EMPTY_FILE.code

\* the stage of a status in Pending -> Verifying ->
\* {FinishedVerification | FailedFileVerification} -> Creating ->
\* FinishedCreating
Stage(st) ==
  CASE st = PENDING_VERIFICATION     -> 1
    [] st = VERIFIYING               -> 2
    [] st = FINISHED_VERIFICATION    -> 3
    [] st = FAILED_FILE_VERIFICATION -> 3
    [] st = CREATING                 -> 4
    [] st = FINISHED_CREATING        -> 5

\* C3: the status never regresses: no step takes it to an earlier stage
\* (the two outcomes of verification count as one stage), so an event in
\* Creating or FinishedCreating never becomes FailedFileVerification.
C3_StatusMonotonic ==
  [][Stage(status') >= Stage(status)]_vars

(***************************************************************************)
(* Properties of append_error, checked under SpecAppend.                   *)
(***************************************************************************)
RowErrorsBefore == Row_errors_as_array(row_errors)
RowErrorsAfter  == Row_errors_as_array(row_errors')

\* the entry a row append_error call is to store
RowEntry(a) ==
  [code |-> a.err.code,
   fields |-> IF a.fields.isStr THEN <<a.fields.s>> ELSE a.fields.items,
   msg |-> a.err.msg, data |-> a.data, fatal |-> a.err.fatal]

\* the stored text holds no error: unset, empty, or an empty JSON list
HoldsNothing(f) == f.null \/ f.text = <<>> \/ Len(f.text) = 2

\* C8: each append_error call, on the event and on a row, from any stored
\* list, makes errors_as_array() one entry longer, the new entry last and
\* carrying the given code, message, payload, fatal flag (and fields, a
\* single name stored as a one-element list), the earlier entries
\* unchanged; has_errors() is true iff the list is non-empty.
C8_AppendError ==
  /\ [](/\ Event_has_errors(errors) <=> ~HoldsNothing(errors)
        /\ Row_has_errors(row_errors) <=> ~HoldsNothing(row_errors))
  /\ [][/\ op' = "GenericImportEvent.append_error" =>
             /\ Len(ErrorsAfter) = Len(ErrorsBefore) + 1
             /\ ErrorsAfter[Len(ErrorsAfter)] = EventEntry(args'.err, args'.data)
             /\ SubSeq(ErrorsAfter, 1, Len(ErrorsBefore)) = ErrorsBefore
             /\ Event_has_errors(errors')
        /\ op' = "GenericImportRow.append_error" =>
             /\ Len(RowErrorsAfter) = Len(RowErrorsBefore) + 1
             /\ RowErrorsAfter[Len(RowErrorsAfter)] = RowEntry(args')
             /\ SubSeq(RowErrorsAfter, 1, Len(RowErrorsBefore)) = RowErrorsBefore
             /\ Row_has_errors(row_errors')
      ]_vars

\* a single field name was appended to a row that already held two errors,
\* next to an event holding errors of its own
C8_Witness ==
  /\ op = "GenericImportRow.append_error"
  /\ args.fields.isStr
  /\ Len(Row_errors_as_array(row_errors)) = 3
  /\ Row_errors_as_array(row_errors)[3].fields = <<"f1">>
  /\ Len(Event_errors_as_array(errors)) >= 1

(***************************************************************************)
(* Properties of the counting queries, checked under SpecCounts.           *)
(***************************************************************************)
RowsWith(s) == {i \in 1..Len(rows) : rows[i] = s}

RECURSIVE SumOver(_, _)
SumOver(m, S) ==
  IF S = {} THEN 0
  ELSE LET x == CHOOSE y \in S : TRUE IN m[x] + SumOver(m, S \ {x})

\* C9: row_counts_by_status() maps each status held by a row to the number
\* of rows holding it (no zero counts, the counts sum to the number of
\* rows); completed_row_count() is the number of rows not Waiting; neither
\* query changes the event or a row.
C9_RowCounts ==
  /\ [](/\ op = "row_counts_by_status" =>
             /\ DOMAIN ret = {s \in RowStatuses : RowsWith(s) # {}}
             /\ \A s \in DOMAIN ret : ret[s] = Cardinality(RowsWith(s)) /\ ret[s] > 0
             /\ SumOver(ret, DOMAIN ret) = Len(rows)
        /\ op = "completed_row_count" =>
             ret = Len(rows) - Cardinality(RowsWith(WAITING)))
  /\ [][op' \in {"row_counts_by_status", "completed_row_count"} =>
          UNCHANGED <<status, errors, rows, data, model_fields, cleaned, row_errors>>
      ]_vars

\* the rows [Success, Success, Error, Waiting] have three completed rows
C9_Witness ==
  /\ rows = <<SUCCESS, SUCCESS, ERROR, WAITING>>
  /\ op = "completed_row_count"
  /\ ret = 3

\* the same rows are counted as {Success: 2, Error: 1, Waiting: 1}
C9_WitnessCounts ==
  /\ rows = <<SUCCESS, SUCCESS, ERROR, WAITING>>
  /\ op = "row_counts_by_status"
  /\ ret = (SUCCESS :> 2) @@ (ERROR :> 1) @@ (WAITING :> 1)

(***************************************************************************)
(* Properties of the row validators, checked under SpecRow.                *)
(***************************************************************************)
Validate == "validate_and_convert_datatypes"

\* the field names the stored row errors refer to
ErrorFields == UNION {Range(e.fields) : e \in Range(Row_errors_as_array(row_errors))}

\* the stored row errors that name field f
ErrorsNaming(f) ==
  SelectSeq(Row_errors_as_array(row_errors), LAMBDA e : f \in Range(e.fields))

\* C4: after one validation pass over a fresh row no field name is both a
\* key of cleaned and named in the fields of a stored row error.
C4_CleanedDisjointFromErrors ==
  (op = Validate /\ ncalls = 1) => DOMAIN cleaned \cap ErrorFields = {}

\* C5: a second validate_and_convert_datatypes on unchanged raw data
\* leaves the stored error list and cleaned as the first run left them.
C5_RevalidateIdempotent ==
  [][(op = Validate /\ ncalls = 1 /\ op' = Validate /\ ncalls' = 2) =>
       /\ cleaned' = cleaned
       /\ RowErrorsAfter = RowErrorsBefore
    ]_vars

\* C5 as amended: the second run leaves cleaned as the first run left it
\* and records the first run's errors once more, after the stored ones.
C5_RevalidateRepeatsErrors ==
  [][(op = Validate /\ ncalls = 1 /\ op' = Validate /\ ncalls' = 2) =>
       /\ cleaned' = cleaned
       /\ RowErrorsAfter = RowErrorsBefore \o RowErrorsBefore
    ]_vars

\* a row with a cleaned value and two errors was validated a second time
C5_Witness ==
  /\ op = Validate
  /\ ncalls = 2
  /\ Len(Row_errors_as_array(row_errors)) = 4
  /\ DOMAIN cleaned # {}

\* What Python makes of the raw values: the decimal integer literals, the
\* decimal literals, and the number each denotes (as num / 10^exp).
IntLiterals   == {<<"0">>, <<"-", "3">>}
FloatLiterals == IntLiterals \cup {<<"1", ".", "5">>}

NumberOf(v) ==
  CASE v = <<"0">>           -> [num |-> 0, exp |-> 0]
    [] v = <<"-", "3">>      -> [num |-> 0 - 3, exp |-> 0]
    [] v = <<"1", ".", "5">> -> [num |-> 15, exp |-> 1]

NumericGroups == {"POS_FLOAT_FIELDS", "FLOAT_FIELDS", "POS_INT_FIELDS"}

\* the groups of the catalog that declare field f
GroupsOf(c, f) == {g \in Groups : f \in Range(c[g])}

\* the outcome validate_numeric_fields is to have for field f of group g
NumericOutcome(f, g) ==
  LET absent == f \notin DOMAIN data \/ data[f] = <<>>
      named  == ErrorsNaming(f)
      parses == IF g = "POS_INT_FIELDS" THEN data[f] \in IntLiterals
                                        ELSE data[f] \in FloatLiterals
      below  == g # "FLOAT_FIELDS" /\ NumberOf(data[f]).num < 0
      value  == IF g = "POS_INT_FIELDS"
                  THEN IntVal(NumberOf(data[f]).num)
                  ELSE FloatVal(NumberOf(data[f]).num, NumberOf(data[f]).exp)
  IN IF absent
       THEN f \notin DOMAIN cleaned /\ named = <<>>
     ELSE IF parses /\ ~below
       THEN f \in DOMAIN cleaned /\ cleaned[f] = value /\ named = <<>>
     ELSE /\ f \notin DOMAIN cleaned
          /\ Len(named) = 1
          /\ named[1].fields = <<f>>
          /\ named[1].code =
               (IF ~parses
                  THEN (IF g = "POS_INT_FIELDS" THEN INT_ERROR.code
                                                ELSE FLOAT_ERROR.code)
                  ELSE (IF g = "POS_INT_FIELDS" THEN POS_INT_ERROR.code
                                                ELSE POS_FLOAT_ERROR.code))

\* C6: validate_numeric_fields on a fresh row, for a field declared in
\* exactly one numeric group: an absent or empty value leaves no cleaned
\* entry and no error; a value that parses (and is not negative where the
\* group is positive-only) is written to cleaned with no error; otherwise
\* exactly one error names the field (parse error, or positive-constraint
\* error for a parsed negative) and the field is not in cleaned.
C6_NumericOutcomes ==
  (op = "validate_numeric_fields" /\ ncalls = 1) =>
    \A f \in Fields, g \in NumericGroups :
      GroupsOf(model_fields, f) \cap NumericGroups = {g} => NumericOutcome(f, g)

\* a negative value in a positive-float field was rejected and a zero in a
\* positive-int field was kept
C6_Witness ==
  /\ op = "validate_numeric_fields"
  /\ ncalls = 1
  /\ model_fields.POS_FLOAT_FIELDS = <<"f1">>
  /\ model_fields.POS_INT_FIELDS = <<"f2">>
  /\ data = [f1 |-> <<"-", "3">>, f2 |-> <<"0">>]
  /\ DOMAIN cleaned = {"f2"}
  /\ Len(Row_errors_as_array(row_errors)) = 1

Validators == {"validate_numeric_fields", "validate_boolean_fields",
               "validate_string_fields", "validate_date_fields"}

\* C7: each field-group validator returns true exactly when its call
\* appended at least one error whose fatal flag is true.
C7_ReturnsFatal ==
  [][op' \in Validators =>
       ((ret' = TRUE) <=>
          \E i \in (Len(RowErrorsBefore) + 1)..Len(RowErrorsAfter) :
            RowErrorsAfter[i].fatal)
    ]_vars

\* C10: after a validation pass get_fields_with_error() does not raise and
\* maps exactly the fields the stored errors refer to, each to its raw value.
C10_FieldsWithError ==
  (op = "get_fields_with_error" /\ ncalls >= 1) =>
    /\ ~ret.raised
    /\ DOMAIN ret.val = ErrorFields
    /\ \A f \in DOMAIN ret.val : f \in DOMAIN data /\ ret.val[f] = data[f]

====
